---- MODULE Spec2Model ----
(***************************************************************************)
(* OpenMeal: the file-backed meal record store (FileSystemStorageService), *)
(* and the analysis pipeline layered on it (AnalysisProcessor:             *)
(* processMeal, retryMeal, resumePending), with the UI flows that call     *)
(* them.                                                                   *)
(*                                                                         *)
(* Time is counted in hours.  A record file is a JSON document; the model  *)
(* keeps its fields.  imageUri is "" (no image), "ext" (a URI outside the  *)
(* managed images directory) or "sto" (a URI inside it).  analysis is      *)
(* "null" or "obj" (a structured analysis object).  A store operation is   *)
(* one step of the model; the pipeline's runs interleave at their awaits.  *)
(***************************************************************************)
EXTENDS Integers, Sequences, FiniteSets, Bags, TLC

\* ---- bounds of the model ----
MaxIds == 2
MaxRuns == 2
MaxNow == 48
TickHours == 24
MaxExtra == 2
MaxCapPending == 1
MaxSyncs == 4

\* ---- program constants ----
Cap == 50
MsPerHour == 60 * 60 * 1000
MEAL_TIMEOUT_MS == 24 * 60 * 60 * 1000

VARIABLES
  files,      \* record files on disk: id -> record (meal_<id>.json)
  index,      \* index.json: sequence of [id, timestamp]
  blobs,      \* ids whose image was copied into the images directory
  now,        \* wall clock, hours
  nextId,     \* next fresh id (ids are Date.now() at creation)
  runs,       \* pipeline activity: a bag of runs
  inferOk,    \* whether the inference collaborator can succeed at all
  thrown,     \* what has thrown so far: "process", "retry", or "markError" (swallowed)
  vmap,       \* HC_MEAL_VERSION_MAP in SecureStore: id -> last version persisted
  written,    \* Health Connect: id -> the versions written for it, in order
  nSync,      \* calls of writeMealToHealthConnect made so far
  ret         \* the last call made on the store and what it returned

\* the state of the Health Connect bridge
hc == <<vmap, written, nSync>>

vars == <<files, index, blobs, now, nextId, runs, inferOk, thrown, vmap, written, nSync, ret>>

Ids == 1..MaxIds

NoMeal == [id |-> 0, timestamp |-> 0, imageUri |-> "", comment |-> "",
           analysis |-> "null", isLoading |-> FALSE, hasError |-> FALSE]

\* ---- helpers on sequences ----
RECURSIVE SelectIdx(_, _)
SelectIdx(s, id) ==
  IF s = <<>> THEN <<>>
  ELSE IF Head(s).id = id THEN SelectIdx(Tail(s), id)
       ELSE <<Head(s)>> \o SelectIdx(Tail(s), id)

IndexIds(ix) == {ix[i].id : i \in 1..Len(ix)}

\* Array.prototype.sort with (a, b) => b.timestamp - a.timestamp: stable, descending
RECURSIVE InsertDesc(_, _)
InsertDesc(s, e) ==
  IF s = <<>> THEN <<e>>
  ELSE IF Head(s).timestamp >= e.timestamp THEN <<Head(s)>> \o InsertDesc(Tail(s), e)
       ELSE <<e>> \o s

RECURSIVE SortDesc(_)
SortDesc(s) ==
  IF s = <<>> THEN <<>>
  ELSE InsertDesc(SortDesc(SubSeq(s, 1, Len(s) - 1)), s[Len(s)])

Put(f, id, rec) == [i \in DOMAIN f \cup {id} |-> IF i = id THEN rec ELSE f[i]]
Drop(f, S) == [i \in DOMAIN f \ S |-> f[i]]

Entry(id, ts) == [id |-> id, timestamp |-> ts]

\* no call has been made on the store yet
NoCall == [op |-> "none", id |-> 0, range |-> "", again |-> FALSE, threw |-> FALSE, val |-> <<>>]

\* ---- FileSystemStorageService ----

\* the content of a record file that JSON.parse rejects
Unparseable == [NoMeal EXCEPT !.id = -1]

\* readAsStringAsync + JSON.parse of meal_<id>.json succeeds
Readable(id) == id \in DOMAIN files /\ files[id] # Unparseable

\* the content of index.json when it cannot be read or parsed
Garbled == <<Entry(0, 0)>>

\* Faulty variant: the content of the index file is used as it is
readIndex_Raw == index

\* readIndex: the entries of index.json, none when reading or parsing fails
readIndex == IF index = Garbled THEN <<>> ELSE index

\* Faulty variant: the new entry is pushed at the end
Unshift_Push(ix, id, ts) == SelectIdx(ix, id) \o <<Entry(id, ts)>>

\* unshift of the new entry after filtering out the same id
Unshift(ix, id, ts) == <<Entry(id, ts)>> \o SelectIdx(ix, id)

\* Faulty variant: the index is cut and the files of the entries cut off are left
Evicted_None(ix) == {}

\* "Keep only the last 50 meals": the entries kept and the ids whose files go
Kept(ix) == IF Len(ix) > Cap THEN SubSeq(ix, 1, Cap) ELSE ix
Evicted(ix) == IF Len(ix) > Cap THEN {ix[i].id : i \in (Cap + 1)..Len(ix)} ELSE {}

\* an id 0 stands for a missing id; a timestamp is always given
ValidMeal(meal) == meal.id # 0 /\ meal.imageUri # "" /\ meal.analysis # "null"

\* the validation of savePendingMeal: id and timestamp
ValidPending(p) == p.id # 0

saveMealAnalysis(meal) ==
  LET ix == Unshift(readIndex, meal.id, meal.timestamp)
      stored == [meal EXCEPT !.imageUri = "sto"]
  IN /\ files' = Drop(Put(files, meal.id, stored), Evicted(ix))
     /\ index' = Kept(ix)
     /\ blobs' = IF meal.imageUri # "sto" THEN blobs \cup {meal.id} ELSE blobs

PendingRecord(p) ==
  [id |-> p.id, timestamp |-> p.timestamp,
   imageUri |-> IF p.imageUri # "" THEN "sto" ELSE "",
   comment |-> p.comment, analysis |-> "null",
   isLoading |-> TRUE, hasError |-> FALSE]

savePendingMeal(p) ==
  /\ files' = Put(files, p.id, PendingRecord(p))
  /\ index' = Unshift(readIndex, p.id, p.timestamp)
  /\ blobs' = IF p.imageUri # "" THEN blobs \cup {p.id} ELSE blobs

\* { ...existingMeal, ...meal }
Overlay(existing, meal) ==
  [f \in DOMAIN existing \cup DOMAIN meal |-> IF f \in DOMAIN meal THEN meal[f] ELSE existing[f]]

\* Faulty variant: the flags are those of the overlay
Merged_KeepFlags(existing, meal) == Overlay(existing, meal)

\* { ...existingMeal, ...meal, isLoading: false, hasError: false }
Merged(existing, meal) ==
  [f \in DOMAIN existing \cup DOMAIN meal \cup {"isLoading", "hasError"} |->
     IF f \in {"isLoading", "hasError"} THEN FALSE ELSE Overlay(existing, meal)[f]]

ResyncIndex(ix, id, ts) ==
  IF id \in IndexIds(ix)
  THEN SortDesc([i \in 1..Len(ix) |-> IF ix[i].id = id THEN Entry(id, ts) ELSE ix[i]])
  ELSE SortDesc(<<Entry(id, ts)>> \o ix)

\* enabled only when the record file is readable; otherwise the call throws
updateMealAnalysis(id, meal) ==
  LET updated == Merged(files[id], meal)
  IN /\ files' = Put(files, id, updated)
     /\ index' = ResyncIndex(readIndex, id, updated.timestamp)
     /\ UNCHANGED blobs

\* Faulty variant: the error state is set without leaving the loading state
ErrorMeal_KeepLoading(existing) == [existing EXCEPT !.hasError = TRUE]

ErrorMeal(existing) == [existing EXCEPT !.isLoading = FALSE, !.hasError = TRUE]

updateMealAnalysisError(id) ==
  /\ files' = Put(files, id, ErrorMeal(files[id]))
  /\ UNCHANGED <<index, blobs>>

\* Faulty variant: the first file that cannot be read ends the list
RECURSIVE History_StopAtBad(_)
History_StopAtBad(ix) ==
  IF ix = <<>> THEN <<>>
  ELSE IF Readable(Head(ix).id) THEN <<files[Head(ix).id]>> \o History_StopAtBad(Tail(ix))
       ELSE <<>>

\* getMealHistory: the records of the indexed ids whose file is readable, in index order
RECURSIVE History(_)
History(ix) ==
  IF ix = <<>> THEN <<>>
  ELSE (IF Readable(Head(ix).id) THEN <<files[Head(ix).id]>> ELSE <<>>) \o History(Tail(ix))

\* Faulty variant: the entry is cut out by its position, and the position of an
\* id that is not listed is the last one (splice(-1, 1))
deleteMeal_Splice(id) ==
  IF id \in IndexIds(readIndex)
  THEN /\ index' = SelectIdx(readIndex, id)
       /\ files' = Drop(files, {id})
       /\ UNCHANGED blobs
  ELSE IF readIndex = <<>> THEN UNCHANGED <<files, index, blobs>>
       ELSE /\ index' = SubSeq(readIndex, 1, Len(readIndex) - 1)
            /\ UNCHANGED <<files, blobs>>

\* Faulty variant: the record file is deleted and the index is left as it was
deleteMeal_KeepEntry(id) ==
  /\ files' = Drop(files, {id})
  /\ UNCHANGED <<index, blobs>>

deleteMeal(id) ==
  IF id \in IndexIds(readIndex)
  THEN /\ index' = SelectIdx(readIndex, id)
       /\ files' = Drop(files, {id})
       /\ UNCHANGED blobs
  ELSE UNCHANGED <<files, index, blobs>>

\* the window of clearHistoryByTimeRange, in hours
RangeHours(range) ==
  CASE range = "hour" -> 1
    [] range = "day" -> 24
    [] range = "month" -> 30 * 24
    [] range = "year" -> 365 * 24

\* Faulty variant: a meal dated exactly at the cutoff is kept
RECURSIVE MealsToKeep_Strict(_, _)
MealsToKeep_Strict(ix, cutoff) ==
  IF ix = <<>> THEN <<>>
  ELSE (IF Head(ix).timestamp > cutoff THEN <<>> ELSE <<Head(ix)>>)
       \o MealsToKeep_Strict(Tail(ix), cutoff)

RECURSIVE MealsToKeep(_, _)
MealsToKeep(ix, cutoff) ==
  IF ix = <<>> THEN <<>>
  ELSE (IF Head(ix).timestamp >= cutoff THEN <<>> ELSE <<Head(ix)>>)
       \o MealsToKeep(Tail(ix), cutoff)

clearHistory ==
  /\ files' = Drop(files, IndexIds(readIndex))
  /\ index' = <<>>
  /\ UNCHANGED blobs

clearHistoryByTimeRange(range) ==
  IF range = "all" THEN clearHistory
  ELSE LET keep == MealsToKeep(readIndex, now - RangeHours(range))
       IN /\ files' = Drop(files, IndexIds(readIndex) \ IndexIds(keep))
          /\ index' = keep
          /\ UNCHANGED blobs

\* ---- AnalysisProcessor ----

HasFree == BagCardinality(runs) < MaxRuns
Start(run) == runs (+) SetToBag({run})
Become(run, to) == (runs (-) SetToBag({run})) (+) SetToBag({to})
End(run) == runs (-) SetToBag({run})

\* now - mealTime > MEAL_TIMEOUT_MS
Expired(meal) == (now - meal.timestamp) * MsPerHour > MEAL_TIMEOUT_MS

\* the mode dispatch, up to its first await
Dispatch(meal) ==
  IF meal.imageUri = ""
  THEN (IF meal.comment = "" THEN "catch" ELSE "infer")
  ELSE "read"

\* Faulty variant: the error state is looked at before the age of the meal
StartPc_RetryFirst(meal) ==
  IF meal.hasError THEN "retry"
  ELSE IF Expired(meal) THEN "expired"
  ELSE Dispatch(meal)

\* processMeal(meal) runs without suspending up to its first await
StartPc(meal) ==
  IF Expired(meal) THEN "expired"
  ELSE IF meal.hasError THEN "retry"
  ELSE Dispatch(meal)

\* a call of processMeal(meal); exp keeps the outcome of its 24-hour check
NewRun(kind, meal, queue) ==
  [kind |-> kind, pc |-> StartPc(meal), meal |-> meal, queue |-> queue, exp |-> Expired(meal)]

RetryMealRecord(meal) == [meal EXCEPT !.isLoading = TRUE, !.hasError = FALSE]
CompletedMeal(meal) == [meal EXCEPT !.analysis = "obj", !.isLoading = FALSE, !.hasError = FALSE]

\* Faulty variant: a meal whose processing failed ends the loop of resumePending
Over_StopOnFail(run) ==
  IF run.kind = "resume" /\ run.pc # "catch"
  THEN Become(run, [run EXCEPT !.pc = "delay"])
  ELSE End(run)

\* processMeal is over in this run: resumePending goes on to its delay,
\* retryMeal and the add flow are over too
Over(run) ==
  IF run.kind = "resume"
  THEN Become(run, [run EXCEPT !.pc = "delay"])
  ELSE End(run)

\* processMeal returns normally
Returned(run) ==
  /\ runs' = Over(run)
  /\ UNCHANGED thrown

\* processMeal throws e: retryMeal rethrows it, resumePending's loop catches it
Throws(run) ==
  /\ runs' = Over(run)
  /\ thrown' = thrown \cup (IF run.kind = "retry" THEN {"process", "retry"} ELSE {"process"})

Goto(run, pc) ==
  /\ runs' = Become(run, [run EXCEPT !.pc = pc])
  /\ UNCHANGED thrown

\* the 24-hour check: updateMealAnalysisError, emit, return
ProcExpired(run) ==
  /\ run.pc = "expired"
  /\ IF Readable(run.meal.id)
     THEN updateMealAnalysisError(run.meal.id) /\ Returned(run)
     ELSE UNCHANGED <<files, index, blobs>> /\ Goto(run, "catch")
  /\ UNCHANGED <<now, nextId, inferOk, hc, ret>>

\* a retry of a record in error state: back to loading, emit, then the dispatch
ProcRetryLoading(run) ==
  /\ run.pc = "retry"
  /\ IF Readable(run.meal.id)
     THEN /\ updateMealAnalysis(run.meal.id, RetryMealRecord(run.meal))
          /\ Goto(run, Dispatch(run.meal))
     ELSE UNCHANGED <<files, index, blobs>> /\ Goto(run, "catch")
  /\ UNCHANGED <<now, nextId, inferOk, hc, ret>>

\* FileSystem.readAsStringAsync of the image(s): the file may be gone
ProcReadImage(run) ==
  /\ run.pc = "read"
  /\ \E ok \in BOOLEAN : Goto(run, IF ok THEN "infer" ELSE "catch")
  /\ UNCHANGED <<files, index, blobs, now, nextId, inferOk, hc, ret>>

\* Faulty variant: the failure is dropped: processMeal returns without marking the record
ProcInferFail_NoMark(run) ==
  /\ run.pc = "infer"
  /\ Returned(run)
  /\ UNCHANGED <<files, index, blobs, now, nextId, inferOk, hc, ret>>

\* the inference call fails
ProcInferFail(run) ==
  /\ run.pc = "infer"
  /\ Goto(run, "catch")
  /\ UNCHANGED <<files, index, blobs, now, nextId, inferOk, hc, ret>>

\* Faulty variant: the completed meal is written whether or not the record file
\* is there, and its index entry is put back
ProcInferDone_Upsert(run) ==
  /\ run.pc = "infer"
  /\ inferOk
  /\ files' = Put(files, run.meal.id, CompletedMeal(run.meal))
  /\ index' = ResyncIndex(readIndex, run.meal.id, run.meal.timestamp)
  /\ UNCHANGED blobs
  /\ Goto(run, "sync")
  /\ UNCHANGED <<now, nextId, inferOk, hc, ret>>

\* the inference call answers: updateMealAnalysis with the completed meal
ProcInferDone(run) ==
  /\ run.pc = "infer"
  /\ inferOk
  /\ IF Readable(run.meal.id)
     THEN /\ updateMealAnalysis(run.meal.id, CompletedMeal(run.meal))
          /\ Goto(run, "sync")
     ELSE UNCHANGED <<files, index, blobs>> /\ Goto(run, "catch")
  /\ UNCHANGED <<now, nextId, inferOk, hc, ret>>

\* writeMealToHealthConnect in its own try/catch, then emit
ProcSync(run) ==
  /\ run.pc = "sync"
  /\ Returned(run)
  /\ UNCHANGED <<files, index, blobs, now, nextId, inferOk, hc, ret>>

\* Faulty variant: no inner try/catch: the failure of updateMealAnalysisError escapes
CatchSwallow_Rethrow(run) == Throws(run)

\* updateMealAnalysisError throws inside the catch block: the inner try/catch
\* logs it and processMeal returns
CatchSwallow(run) ==
  /\ runs' = Over(run)
  /\ thrown' = thrown \cup {"markError"}

ProcCatch(run) ==
  /\ run.pc = "catch"
  /\ IF Readable(run.meal.id)
     THEN updateMealAnalysisError(run.meal.id) /\ Returned(run)
     ELSE UNCHANGED <<files, index, blobs>> /\ CatchSwallow(run)
  /\ UNCHANGED <<now, nextId, inferOk, hc, ret>>

\* MealTimelineCard.handleRetryMeal on a meal shown in error state:
\* retryMeal = getMealById, then processMeal
RetryMeal(id) ==
  /\ HasFree
  /\ Readable(id)
  /\ files[id].hasError
  /\ runs' = Start(NewRun("retry", files[id], <<>>))
  /\ UNCHANGED <<files, index, blobs, now, nextId, inferOk, hc, ret, thrown>>

RECURSIVE ToRetry(_)
ToRetry(ms) ==
  IF ms = <<>> THEN <<>>
  ELSE (IF Head(ms).isLoading \/ Head(ms).hasError THEN <<Head(ms)>> ELSE <<>>)
       \o ToRetry(Tail(ms))

ResumePending ==
  /\ HasFree
  /\ ToRetry(History(readIndex)) # <<>>
  /\ runs' = Start(NewRun("resume", Head(ToRetry(History(readIndex))),
                          Tail(ToRetry(History(readIndex)))))
  /\ UNCHANGED <<files, index, blobs, now, nextId, inferOk, hc, ret, thrown>>

\* after the one-second delay: the next meal of the loop, or the end
ResumeNext(run) ==
  /\ run.pc = "delay"
  /\ runs' = IF run.queue = <<>> THEN End(run)
             ELSE Become(run, NewRun("resume", Head(run.queue), Tail(run.queue)))
  /\ UNCHANGED <<files, index, blobs, now, nextId, inferOk, hc, ret, thrown>>

\* ---- UI flows ----

\* AddMealModal.saveMeal / saveMealWithoutPhoto
AddMeal(img, comment) ==
  LET p == [id |-> nextId, timestamp |-> now, imageUri |-> img, comment |-> comment,
            analysis |-> "null", isLoading |-> TRUE, hasError |-> FALSE]
  IN /\ nextId <= MaxIds
     /\ HasFree
     /\ savePendingMeal(p)
     /\ runs' = Start(NewRun("add", p, <<>>))
     /\ nextId' = nextId + 1
     /\ UNCHANGED <<now, inferOk, hc, ret, thrown>>

\* MealTimelineCard.handleDeleteMeal / MealDetailModal.handleDelete
DeleteMeal(id) ==
  /\ deleteMeal(id)
  /\ UNCHANGED <<now, nextId, runs, inferOk, hc, ret, thrown>>

Init ==
  /\ files = [i \in {} |-> NoMeal]
  /\ index = <<>>
  /\ blobs = {}
  /\ now = 0
  /\ nextId = 1
  /\ runs = EmptyBag
  /\ inferOk = TRUE
  /\ thrown = {}
  /\ vmap = [i \in {} |-> 0]
  /\ written = [i \in Ids |-> <<>>]
  /\ nSync = 0
  /\ ret = NoCall

Tick ==
  /\ now + TickHours <= MaxNow
  /\ now' = now + TickHours
  /\ UNCHANGED <<files, index, blobs, nextId, runs, inferOk, hc, ret, thrown>>

\* (image, comment) of a new meal: text only, photo
AddInputs == {<<"", "c">>, <<"ext", "">>}

\* ---- the store's operations called directly, one at a time ----

\* create: saveMealAnalysis of a meal that passes its validation
StoreCreate(id, ts, img) ==
  LET meal == [id |-> id, timestamp |-> ts, imageUri |-> img, comment |-> "",
               analysis |-> "obj", isLoading |-> FALSE, hasError |-> FALSE]
  IN /\ ValidMeal(meal)
     /\ saveMealAnalysis(meal)
     /\ UNCHANGED <<now, nextId, runs, inferOk, hc, ret, thrown>>

StoreCreatePending(id, ts, in) ==
  /\ savePendingMeal([id |-> id, timestamp |-> ts, imageUri |-> in[1], comment |-> in[2]])
  /\ UNCHANGED <<now, nextId, runs, inferOk, hc, ret, thrown>>

\* what update is given: a new date, a new analysis, flags of the caller's record
Patches ==
  [timestamp : {0, now}, analysis : {"null", "obj"}]
    \cup [timestamp : {0, now}]
    \cup [analysis : {"obj"}, isLoading : BOOLEAN, hasError : BOOLEAN]

\* a new date, or the analysis of the pipeline
FaultPatches == [timestamp : {0, now}] \cup [analysis : {"obj"}]

\* update of a stored record
StoreUpdate(id, patch) ==
  /\ Readable(id)
  /\ updateMealAnalysis(id, patch)
  /\ UNCHANGED <<now, nextId, runs, inferOk, hc, ret, thrown>>

StoreMarkError(id) ==
  /\ Readable(id)
  /\ updateMealAnalysisError(id)
  /\ UNCHANGED <<now, nextId, runs, inferOk, hc, ret, thrown>>

StoreClear(range) ==
  /\ clearHistoryByTimeRange(range)
  /\ UNCHANGED <<now, nextId, runs, inferOk, hc, ret, thrown>>

Ranges == {"hour", "day", "month", "year", "all"}

NextStore ==
  \/ Tick
  \/ \E id \in Ids, ts \in {0, now}, img \in {"ext", "sto"} : StoreCreate(id, ts, img)
  \/ \E id \in Ids, ts \in {0, now}, in \in AddInputs : StoreCreatePending(id, ts, in)
  \/ \E id \in Ids, patch \in Patches : StoreUpdate(id, patch)
  \/ \E id \in Ids : StoreMarkError(id)
  \/ \E id \in Ids : DeleteMeal(id)
  \/ \E range \in Ranges : StoreClear(range)

SpecStore == Init /\ [][NextStore]_vars

\* ---- filling the store up to its retention cap ----

Pending == {i \in DOMAIN files : files[i].isLoading}

CapCreate ==
  /\ nextId <= Cap + MaxExtra
  /\ saveMealAnalysis([id |-> nextId, timestamp |-> now, imageUri |-> "ext", comment |-> "",
                       analysis |-> "obj", isLoading |-> FALSE, hasError |-> FALSE])
  /\ nextId' = nextId + 1
  /\ UNCHANGED <<now, runs, inferOk, hc, ret, thrown>>

CapCreatePending ==
  /\ nextId <= Cap + MaxExtra
  /\ Cardinality(Pending) < MaxCapPending
  /\ savePendingMeal([id |-> nextId, timestamp |-> now, imageUri |-> "ext", comment |-> ""])
  /\ nextId' = nextId + 1
  /\ UNCHANGED <<now, runs, inferOk, hc, ret, thrown>>

NextCap == CapCreate \/ CapCreatePending

SpecCap == Init /\ [][NextCap]_vars

\* ---- the store's calls with what they return, on a disk that can be damaged ----

\* the call op(id) or op(range) returns val, or throws; again tells that the
\* call before it was the same one
Call(op, id, range, threw, val) ==
  ret' = [op |-> op, id |-> id, range |-> range,
          again |-> (ret.op = op /\ ret.id = id /\ ret.range = range),
          threw |-> threw, val |-> val]

\* one call at a time: nothing of the store is in flight
Quiet == runs = EmptyBag

FCreate(id) ==
  /\ Quiet
  /\ saveMealAnalysis([id |-> id, timestamp |-> now, imageUri |-> "ext", comment |-> "",
                       analysis |-> "obj", isLoading |-> FALSE, hasError |-> FALSE])
  /\ Call("create", id, "", FALSE, <<>>)
  /\ UNCHANGED <<now, nextId, runs, inferOk, thrown, hc>>

FCreatePending(id) ==
  /\ Quiet
  /\ savePendingMeal([id |-> id, timestamp |-> now, imageUri |-> "", comment |-> "c"])
  /\ Call("createPending", id, "", FALSE, <<>>)
  /\ UNCHANGED <<now, nextId, runs, inferOk, thrown, hc>>

\* updateMealAnalysis rethrows when the record file cannot be read or parsed
FUpdate(id, patch) ==
  /\ Quiet
  /\ IF Readable(id)
     THEN updateMealAnalysis(id, patch) /\ Call("update", id, "", FALSE, <<>>)
     ELSE UNCHANGED <<files, index, blobs>> /\ Call("update", id, "", TRUE, <<>>)
  /\ UNCHANGED <<now, nextId, runs, inferOk, thrown, hc>>

FMarkError(id) ==
  /\ Quiet
  /\ IF Readable(id)
     THEN updateMealAnalysisError(id) /\ Call("markError", id, "", FALSE, <<>>)
     ELSE UNCHANGED <<files, index, blobs>> /\ Call("markError", id, "", TRUE, <<>>)
  /\ UNCHANGED <<now, nextId, runs, inferOk, thrown, hc>>

FDelete(id) ==
  /\ Quiet
  /\ deleteMeal(id)
  /\ Call("delete", id, "", FALSE, <<>>)
  /\ UNCHANGED <<now, nextId, runs, inferOk, thrown, hc>>

FClear(range) ==
  /\ Quiet
  /\ clearHistoryByTimeRange(range)
  /\ Call("clear", 0, range, FALSE, <<>>)
  /\ UNCHANGED <<now, nextId, runs, inferOk, thrown, hc>>

\* getMealHistory
FList ==
  /\ Quiet
  /\ Call("list", 0, "", FALSE, History(readIndex))
  /\ UNCHANGED <<files, index, blobs, now, nextId, runs, inferOk, thrown, hc>>

\* getMealCount
FCount ==
  /\ Quiet
  /\ Call("count", 0, "", FALSE, <<Len(readIndex)>>)
  /\ UNCHANGED <<files, index, blobs, now, nextId, runs, inferOk, thrown, hc>>

\* getMealById: the record, or null (no value) when the file cannot be read or parsed
FGet(id) ==
  /\ Quiet
  /\ Call("get", id, "", FALSE, IF Readable(id) THEN <<files[id]>> ELSE <<>>)
  /\ UNCHANGED <<files, index, blobs, now, nextId, runs, inferOk, thrown, hc>>

\* out of band: a record file is removed
LoseFile(id) ==
  /\ id \in DOMAIN files
  /\ files' = Drop(files, {id})
  /\ ret' = [NoCall EXCEPT !.op = "fault"]
  /\ UNCHANGED <<index, blobs, now, nextId, runs, inferOk, thrown, hc>>

\* out of band: a record file gets a content that does not parse
GarbleFile(id) ==
  /\ id \in DOMAIN files
  /\ files' = Put(files, id, Unparseable)
  /\ ret' = [NoCall EXCEPT !.op = "fault"]
  /\ UNCHANGED <<index, blobs, now, nextId, runs, inferOk, thrown, hc>>

\* out of band: the index file gets a content that does not parse
GarbleIndex ==
  /\ index' = Garbled
  /\ ret' = [NoCall EXCEPT !.op = "fault"]
  /\ UNCHANGED <<files, blobs, now, nextId, runs, inferOk, thrown, hc>>

NextFaults ==
  \/ \E id \in Ids : FCreate(id)
  \/ \E id \in Ids : FCreatePending(id)
  \/ \E id \in Ids, patch \in FaultPatches : FUpdate(id, patch)
  \/ \E id \in Ids : FMarkError(id)
  \/ \E id \in Ids : FDelete(id)
  \/ \E range \in Ranges : FClear(range)
  \/ FList
  \/ FCount
  \/ \E id \in Ids : FGet(id)
  \/ \E id \in Ids : LoseFile(id)
  \/ \E id \in Ids : GarbleFile(id)
  \/ GarbleIndex

SpecFaults == Init /\ [][NextFaults]_vars

\* ---- what the store and the import take in ----

\* saveMealAnalysis(meal) with its validation
VCreate(id, img, comment) ==
  LET meal == [id |-> id, timestamp |-> now, imageUri |-> img, comment |-> comment,
               analysis |-> "obj", isLoading |-> FALSE, hasError |-> FALSE]
  IN /\ Quiet
     /\ IF ValidMeal(meal)
        THEN saveMealAnalysis(meal) /\ Call("create", id, "", FALSE, <<>>)
        ELSE UNCHANGED <<files, index, blobs>> /\ Call("create", id, "", TRUE, <<>>)
     /\ UNCHANGED <<now, nextId, runs, inferOk, thrown, hc>>

\* savePendingMeal(pendingMeal) with its validation
VCreatePending(id, img, comment) ==
  LET p == [id |-> id, timestamp |-> now, imageUri |-> img, comment |-> comment]
  IN /\ Quiet
     /\ IF ValidPending(p)
        THEN savePendingMeal(p) /\ Call("createPending", id, "", FALSE, <<>>)
        ELSE UNCHANGED <<files, index, blobs>> /\ Call("createPending", id, "", TRUE, <<>>)
     /\ UNCHANGED <<now, nextId, runs, inferOk, thrown, hc>>

\* the meals of an export file that passes validateExportData
Exported == [id : Ids, timestamp : {0}, image : BOOLEAN, comment : {"", "c"}]

Bundles ==
  {<<e>> : e \in Exported}
    \cup {<<e1, e2>> : e1 \in {e \in Exported : e.id = 1}, e2 \in {e \in Exported : e.id = 2}}

\* the MealAnalysis object importData builds for an exported meal
ImportedMeal(e) ==
  [id |-> e.id, timestamp |-> e.timestamp, imageUri |-> IF e.image THEN "sto" ELSE "",
   comment |-> e.comment, analysis |-> "obj", isLoading |-> FALSE, hasError |-> FALSE]

ImportPc(queue) == IF Head(queue).image THEN "copy" ELSE "save"

\* importData up to its first meal
ImportStart(bundle) ==
  /\ Quiet
  /\ runs' = Start([kind |-> "import", pc |-> ImportPc(bundle), queue |-> bundle, all |-> bundle])
  /\ ret' = [NoCall EXCEPT !.op = "importing"]
  /\ UNCHANGED <<files, index, blobs, now, nextId, inferOk, thrown, hc>>

\* base64ToImage and copyImageToStorage of the meal's image
ImportCopy(run) ==
  /\ run.kind = "import" /\ run.pc = "copy"
  /\ blobs' = blobs \cup {Head(run.queue).id}
  /\ runs' = Become(run, [run EXCEPT !.pc = "save"])
  /\ UNCHANGED <<files, index, now, nextId, inferOk, thrown, hc, ret>>

\* await saveMealAnalysis(meal): its error ends importData, which rethrows it
ImportSave(run) ==
  /\ run.kind = "import" /\ run.pc = "save"
  /\ IF ValidMeal(ImportedMeal(Head(run.queue)))
     THEN /\ saveMealAnalysis(ImportedMeal(Head(run.queue)))
          /\ IF Tail(run.queue) = <<>>
             THEN runs' = End(run) /\ Call("import", 0, "", FALSE, run.all)
             ELSE /\ runs' = Become(run, [run EXCEPT !.queue = Tail(run.queue),
                                                      !.pc = ImportPc(Tail(run.queue))])
                  /\ UNCHANGED ret
     ELSE /\ UNCHANGED <<files, index, blobs>>
          /\ runs' = End(run)
          /\ Call("import", 0, "", TRUE, run.all)
  /\ UNCHANGED <<now, nextId, inferOk, thrown, hc>>

NextIngest ==
  \/ \E id \in Ids \cup {0}, img \in {"", "ext"}, comment \in {"", "c"} : VCreate(id, img, comment)
  \/ \E id \in Ids \cup {0}, img \in {"", "ext"}, comment \in {"", "c"} : VCreatePending(id, img, comment)
  \/ \E bundle \in Bundles : ImportStart(bundle)
  \/ \E run \in BagToSet(runs) : ImportCopy(run)
  \/ \E run \in BagToSet(runs) : ImportSave(run)
  \/ FList

SpecIngest == Init /\ [][NextIngest]_vars

\* ---- clearing by time range, with meals on both sides of each cutoff ----

\* the hours at which meals are saved and the history is cleared: each window
\* of clearHistoryByTimeRange, and one hour more
ClearInstants == {0, 1, 2, 24, 25, 30 * 24, 30 * 24 + 1, 365 * 24, 365 * 24 + 1}

ClockTo(t) ==
  /\ t > now
  /\ now' = t
  /\ UNCHANGED <<files, index, blobs, nextId, runs, inferOk, thrown, hc, ret>>

NextClear ==
  \/ \E t \in ClearInstants : ClockTo(t)
  \/ \E id \in Ids : FCreate(id)
  \/ \E range \in Ranges : FClear(range)

SpecClear == Init /\ [][NextClear]_vars

\* ---- deleteMeal step by step, and the app killed while it runs ----

\* Faulty variant: the record file is deleted before the index is written
DeleteStart_UnlinkFirst(id) ==
  /\ Quiet
  /\ IF id \in IndexIds(readIndex)
     THEN /\ runs' = Start([kind |-> "delete", pc |-> "write", id |-> id,
                            ix |-> SelectIdx(readIndex, id)])
          /\ files' = Drop(files, {id})
          /\ ret' = [NoCall EXCEPT !.op = "deleting", !.id = id]
     ELSE /\ Call("delete", id, "", FALSE, <<>>)
          /\ UNCHANGED <<runs, files>>
  /\ UNCHANGED <<index, blobs, now, nextId, inferOk, thrown, hc>>

\* deleteMeal(id) up to writeIndex: the index is read and the entry looked up;
\* without an entry the call returns
DeleteBegin(id) ==
  /\ IF id \in IndexIds(readIndex)
     THEN /\ runs' = Start([kind |-> "delete", pc |-> "write", id |-> id,
                            ix |-> SelectIdx(readIndex, id)])
          /\ ret' = [NoCall EXCEPT !.op = "deleting", !.id = id]
     ELSE /\ Call("delete", id, "", FALSE, <<>>)
          /\ UNCHANGED runs
  /\ UNCHANGED <<files, index, blobs, now, nextId, inferOk, thrown, hc>>

\* deleteMeal(id) called while nothing else runs on the store
DeleteStart(id) ==
  /\ Quiet
  /\ DeleteBegin(id)

\* writeIndex(index) without the entry
DeleteWriteIndex(run) ==
  /\ run.kind = "delete" /\ run.pc = "write"
  /\ index' = run.ix
  /\ runs' = Become(run, [run EXCEPT !.pc = "unlink"])
  /\ UNCHANGED <<files, blobs, now, nextId, inferOk, thrown, hc, ret>>

\* FileSystem.deleteAsync(mealFile, { idempotent: true }), and the call returns
DeleteUnlink(run) ==
  /\ run.kind = "delete" /\ run.pc = "unlink"
  /\ files' = Drop(files, {run.id})
  /\ runs' = End(run)
  /\ Call("delete", run.id, "", FALSE, <<>>)
  /\ UNCHANGED <<index, blobs, now, nextId, inferOk, thrown, hc>>

\* the app is killed while deleteMeal waits: what is on disk stays, the call
\* is gone; a write of the index under way has been done or not
Kill(run) ==
  /\ run.kind = "delete"
  /\ runs' = EmptyBag
  /\ \E done \in BOOLEAN : index' = IF run.pc = "write" /\ done THEN run.ix ELSE index
  /\ ret' = [NoCall EXCEPT !.op = "kill", !.id = run.id]
  /\ UNCHANGED <<files, blobs, now, nextId, inferOk, thrown, hc>>

NextCrash ==
  \/ \E id \in Ids : FCreate(id)
  \/ \E id \in Ids : FCreatePending(id)
  \/ \E id \in Ids, patch \in FaultPatches : FUpdate(id, patch)
  \/ \E id \in Ids : FGet(id)
  \/ \E id \in Ids : DeleteStart(id)
  \/ \E run \in BagToSet(runs) : DeleteWriteIndex(run)
  \/ \E run \in BagToSet(runs) : DeleteUnlink(run)
  \/ \E run \in BagToSet(runs) : Kill(run)

SpecCrash == Init /\ [][NextCrash]_vars

\* ---- the store's operations step by step: one step per awaited file access ----

\* a call on the store in flight: snap is the record it has read or written,
\* ix the index it has read, todo the entries whose files it has yet to delete
StoreRun(kind, pc, id, arg) ==
  [kind |-> kind, pc |-> pc, id |-> id, arg |-> arg, snap |-> NoMeal, ix |-> <<>>, todo |-> <<>>]

\* updateMealAnalysis(id, patch) is called
UpdateStart(free, id, patch) ==
  /\ free
  /\ runs' = Start(StoreRun("update", "readFile", id, patch))
  /\ UNCHANGED <<files, index, blobs, now, nextId, inferOk, thrown, hc, ret>>

\* updateMealAnalysisError(id) is called
MarkErrorStart(free, id) ==
  /\ free
  /\ runs' = Start(StoreRun("markError", "readFile", id, NoMeal))
  /\ UNCHANGED <<files, index, blobs, now, nextId, inferOk, thrown, hc, ret>>

\* readAsStringAsync(mealFile) and JSON.parse: the call rethrows their failure
StepReadFile(run) ==
  /\ run.kind \in {"update", "markError"} /\ run.pc = "readFile"
  /\ IF Readable(run.id)
     THEN /\ runs' = Become(run, [run EXCEPT !.pc = "writeFile", !.snap = files[run.id]])
          /\ UNCHANGED thrown
     ELSE /\ runs' = End(run)
          /\ thrown' = thrown \cup {run.kind}
  /\ UNCHANGED <<files, index, blobs, now, nextId, inferOk, hc, ret>>

\* writeAsStringAsync(mealFile, updatedMeal) of updateMealAnalysis
UpdateWriteFile(run) ==
  /\ run.kind = "update" /\ run.pc = "writeFile"
  /\ files' = Put(files, run.id, Merged(run.snap, run.arg))
  /\ runs' = Become(run, [run EXCEPT !.pc = "readIndex", !.snap = Merged(run.snap, run.arg)])
  /\ UNCHANGED <<index, blobs, now, nextId, inferOk, thrown, hc, ret>>

\* writeAsStringAsync(mealFile, updatedMeal) of updateMealAnalysisError
MarkErrorWriteFile(run) ==
  /\ run.kind = "markError" /\ run.pc = "writeFile"
  /\ files' = Put(files, run.id, ErrorMeal(run.snap))
  /\ runs' = End(run)
  /\ UNCHANGED <<index, blobs, now, nextId, inferOk, thrown, hc, ret>>

\* savePendingMeal(p) is called
PendingStart(free, p) ==
  /\ free
  /\ runs' = Start(StoreRun("createPending", "writeFile", p.id, p))
  /\ UNCHANGED <<files, index, blobs, now, inferOk, thrown, hc, ret>>

\* copyImageToStorage, then writeAsStringAsync(mealFile, mealToSave)
PendingWriteFile(run) ==
  /\ run.kind = "createPending" /\ run.pc = "writeFile"
  /\ files' = Put(files, run.id, PendingRecord(run.arg))
  /\ blobs' = IF run.arg.imageUri # "" THEN blobs \cup {run.id} ELSE blobs
  /\ runs' = Become(run, [run EXCEPT !.pc = "readIndex"])
  /\ UNCHANGED <<index, now, nextId, inferOk, thrown, hc, ret>>

\* saveMealAnalysis(meal) is called with a meal that passes its validation
CreateStart(free, meal) ==
  /\ free
  /\ ValidMeal(meal)
  /\ runs' = Start(StoreRun("create", "writeFile", meal.id, meal))
  /\ UNCHANGED <<files, index, blobs, now, inferOk, thrown, hc, ret>>

\* copyImageToStorage, then writeAsStringAsync(mealFile, mealToSave)
CreateWriteFile(run) ==
  /\ run.kind = "create" /\ run.pc = "writeFile"
  /\ files' = Put(files, run.id, [run.arg EXCEPT !.imageUri = "sto"])
  /\ blobs' = IF run.arg.imageUri # "sto" THEN blobs \cup {run.id} ELSE blobs
  /\ runs' = Become(run, [run EXCEPT !.pc = "readIndex"])
  /\ UNCHANGED <<index, now, nextId, inferOk, thrown, hc, ret>>

\* await this.readIndex() of an update, a create or a createPending
StepReadIndex(run) ==
  /\ run.kind \in {"update", "create", "createPending"} /\ run.pc = "readIndex"
  /\ runs' = Become(run, [run EXCEPT !.pc = IF run.kind = "create" THEN "evict" ELSE "writeIndex",
                                     !.ix = readIndex])
  /\ UNCHANGED <<files, index, blobs, now, nextId, inferOk, thrown, hc, ret>>

\* the entry is set or put back, the index sorted and written
UpdateWriteIndex(run) ==
  /\ run.kind = "update" /\ run.pc = "writeIndex"
  /\ index' = ResyncIndex(run.ix, run.id, run.snap.timestamp)
  /\ runs' = End(run)
  /\ UNCHANGED <<files, blobs, now, nextId, inferOk, thrown, hc, ret>>

\* the entry is unshifted and the index written
PendingWriteIndex(run) ==
  /\ run.kind = "createPending" /\ run.pc = "writeIndex"
  /\ index' = Unshift(run.ix, run.id, run.arg.timestamp)
  /\ runs' = End(run)
  /\ UNCHANGED <<files, blobs, now, nextId, inferOk, thrown, hc, ret>>

\* the entry is unshifted and the files of the entries beyond the 50th are deleted
CreateEvict(run) ==
  /\ run.kind = "create" /\ run.pc = "evict"
  /\ files' = Drop(files, Evicted(Unshift(run.ix, run.id, run.arg.timestamp)))
  /\ runs' = Become(run, [run EXCEPT !.pc = "writeIndex"])
  /\ UNCHANGED <<index, blobs, now, nextId, inferOk, thrown, hc, ret>>

\* the first 50 entries are written as the index
CreateWriteIndex(run) ==
  /\ run.kind = "create" /\ run.pc = "writeIndex"
  /\ index' = Kept(Unshift(run.ix, run.id, run.arg.timestamp))
  /\ runs' = End(run)
  /\ UNCHANGED <<files, blobs, now, nextId, inferOk, thrown, hc, ret>>

\* deleteMeal(id) called while other calls may be in flight
RaceDelete(id) ==
  /\ HasFree
  /\ DeleteBegin(id)

\* the entries clearHistoryByTimeRange puts in mealsToDelete
RECURSIVE MealsToDelete(_, _)
MealsToDelete(ix, cutoff) ==
  IF ix = <<>> THEN <<>>
  ELSE (IF Head(ix).timestamp >= cutoff THEN <<Head(ix)>> ELSE <<>>)
       \o MealsToDelete(Tail(ix), cutoff)

\* clearHistoryByTimeRange(range) up to the end of its loop over the index:
\* for 'all', clearHistory, which deletes the files of all the entries
ClearStart(free, range) ==
  /\ free
  /\ runs' = Start([StoreRun("clear", "unlink", 0, NoMeal) EXCEPT
                      !.ix = IF range = "all" THEN <<>>
                             ELSE MealsToKeep(readIndex, now - RangeHours(range)),
                      !.todo = IF range = "all" THEN readIndex
                               ELSE MealsToDelete(readIndex, now - RangeHours(range))])
  /\ UNCHANGED <<files, index, blobs, now, nextId, inferOk, thrown, hc, ret>>

\* FileSystem.deleteAsync of the next meal file
ClearUnlink(run) ==
  /\ run.kind = "clear" /\ run.pc = "unlink" /\ run.todo # <<>>
  /\ files' = Drop(files, {Head(run.todo).id})
  /\ runs' = Become(run, [run EXCEPT !.todo = Tail(run.todo)])
  /\ UNCHANGED <<index, blobs, now, nextId, inferOk, thrown, hc, ret>>

\* writeIndex of the meals kept
ClearWriteIndex(run) ==
  /\ run.kind = "clear" /\ run.pc = "unlink" /\ run.todo = <<>>
  /\ index' = run.ix
  /\ runs' = End(run)
  /\ UNCHANGED <<files, blobs, now, nextId, inferOk, thrown, hc, ret>>

\* the app is killed: the calls in flight are gone, the disk stays as it is
KillApp ==
  /\ runs # EmptyBag
  /\ runs' = EmptyBag
  /\ ret' = [NoCall EXCEPT !.op = "kill"]
  /\ UNCHANGED <<files, index, blobs, now, nextId, inferOk, thrown, hc>>

\* a meal as the import or the re-log gives it to saveMealAnalysis
NewMeal(id, ts) ==
  [id |-> id, timestamp |-> ts, imageUri |-> "ext", comment |-> "",
   analysis |-> "obj", isLoading |-> FALSE, hasError |-> FALSE]

\* a meal as the add flow gives it to savePendingMeal
NewPending(id, ts) == [id |-> id, timestamp |-> ts, imageUri |-> "", comment |-> "c"]

\* the date a meal made at 0 is moved to
RaceTimes == {TickHours}

\* a new date from the detail view
DatePatches == [timestamp : RaceTimes]

\* a meal with a new id is given to saveMealAnalysis
RaceCreate(free, ts) ==
  /\ nextId <= MaxIds
  /\ CreateStart(free, NewMeal(nextId, ts))
  /\ nextId' = nextId + 1

\* the add flow gives a meal with a new id (Date.now()) to savePendingMeal
RaceCreatePending(free, ts) ==
  /\ nextId <= MaxIds
  /\ PendingStart(free, NewPending(nextId, ts))
  /\ nextId' = nextId + 1

\* saveMealAnalysis of a meal dated now, whether or not its id is stored
KillCreate(id) ==
  /\ CreateStart(Quiet, NewMeal(id, now))
  /\ UNCHANGED nextId

\* the meals the screens show and the pipeline works on: those getMealHistory lists
Listed == {id \in IndexIds(readIndex) : Readable(id)}

\* create, createPending, update and markError, interleaved at their awaits
NextRace ==
  \/ RaceCreate(HasFree, now)
  \/ RaceCreatePending(HasFree, now)
  \/ \E id \in Listed, patch \in DatePatches : UpdateStart(HasFree, id, patch)
  \/ \E id \in Listed : UpdateStart(HasFree, id, CompletedMeal(files[id]))
  \/ \E id \in Listed : MarkErrorStart(HasFree, id)
  \/ \E run \in BagToSet(runs) : StepReadFile(run)
  \/ \E run \in BagToSet(runs) : UpdateWriteFile(run)
  \/ \E run \in BagToSet(runs) : MarkErrorWriteFile(run)
  \/ \E run \in BagToSet(runs) : PendingWriteFile(run)
  \/ \E run \in BagToSet(runs) : CreateWriteFile(run)
  \/ \E run \in BagToSet(runs) : StepReadIndex(run)
  \/ \E run \in BagToSet(runs) : UpdateWriteIndex(run)
  \/ \E run \in BagToSet(runs) : PendingWriteIndex(run)
  \/ \E run \in BagToSet(runs) : CreateEvict(run)
  \/ \E run \in BagToSet(runs) : CreateWriteIndex(run)

SpecRace == Init /\ [][NextRace]_vars

\* the add flow awaits savePendingMeal before it closes: no save is in flight
Saved == \A run \in BagToSet(runs) : run.kind # "createPending"

\* the calls in flight, if any, are calls of updateMealAnalysis
OnlyUpdates == \A run \in BagToSet(runs) : run.kind = "update"

\* deleteMeal interleaved with updateMealAnalysis at their awaits
NextRaceDelete ==
  \/ RaceCreatePending(Quiet, now)
  \/ \E id \in Listed, patch \in DatePatches : UpdateStart(HasFree /\ Saved, id, patch)
  \/ \E id \in Listed : OnlyUpdates /\ RaceDelete(id)
  \/ \E run \in BagToSet(runs) : StepReadFile(run)
  \/ \E run \in BagToSet(runs) : UpdateWriteFile(run)
  \/ \E run \in BagToSet(runs) : PendingWriteFile(run)
  \/ \E run \in BagToSet(runs) : StepReadIndex(run)
  \/ \E run \in BagToSet(runs) : UpdateWriteIndex(run)
  \/ \E run \in BagToSet(runs) : PendingWriteIndex(run)
  \/ \E run \in BagToSet(runs) : DeleteWriteIndex(run)
  \/ \E run \in BagToSet(runs) : DeleteUnlink(run)

SpecRaceDelete == Init /\ [][NextRaceDelete]_vars

\* create and clear, one call at a time, and the app killed while one runs
NextKillStore ==
  \/ Tick
  \/ \E id \in Ids : KillCreate(id)
  \/ \E range \in Ranges : ClearStart(Quiet, range)
  \/ \E run \in BagToSet(runs) : CreateWriteFile(run)
  \/ \E run \in BagToSet(runs) : StepReadIndex(run)
  \/ \E run \in BagToSet(runs) : CreateEvict(run)
  \/ \E run \in BagToSet(runs) : CreateWriteIndex(run)
  \/ \E run \in BagToSet(runs) : ClearUnlink(run)
  \/ \E run \in BagToSet(runs) : ClearWriteIndex(run)
  \/ KillApp

SpecKillStore == Init /\ [][NextKillStore]_vars

\* ---- HealthConnectService: writeMealToHealthConnect ----

\* Faulty variant: the version after the stored one is skipped
NextVersion_Skip(map, mealId) == (IF mealId \in DOMAIN map THEN map[mealId] ELSE 0) + 2

\* (map[mealId] ?? 0) + 1
NextVersion(map, mealId) == (IF mealId \in DOMAIN map THEN map[mealId] ELSE 0) + 1

\* writeMealToHealthConnect(meal) is called; hasWritePermission() is awaited
\* first, and without the permission the call returns at once
SyncStart(id, an) ==
  /\ nSync < MaxSyncs
  /\ HasFree
  /\ nSync' = nSync + 1
  /\ \E granted \in BOOLEAN :
       runs' = IF granted
               THEN Start([kind |-> "sync", pc |-> "version", id |-> id, an |-> an,
                           version |-> 0, map |-> vmap])
               ELSE runs
  /\ UNCHANGED <<files, index, blobs, now, nextId, inferOk, thrown, vmap, written, ret>>

\* getNextVersion: the map is read from SecureStore and kept by the call;
\* a meal without nutritional totals gives no record and the call returns
SyncGetVersion(run) ==
  /\ run.kind = "sync" /\ run.pc = "version"
  /\ runs' = IF run.an = "null" THEN End(run)
             ELSE Become(run, [run EXCEPT !.pc = "init", !.map = vmap,
                                          !.version = NextVersion(vmap, run.id)])
  /\ UNCHANGED <<files, index, blobs, now, nextId, inferOk, thrown, hc, ret>>

\* ensureInitialized
SyncInit(run) ==
  /\ run.kind = "sync" /\ run.pc = "init"
  /\ \E initOK \in BOOLEAN :
       runs' = IF initOK THEN Become(run, [run EXCEPT !.pc = "write"]) ELSE End(run)
  /\ UNCHANGED <<files, index, blobs, now, nextId, inferOk, thrown, hc, ret>>

\* insertRecords([record]) succeeds: Health Connect has the record at this version
SyncWriteOk(run) ==
  /\ run.kind = "sync" /\ run.pc = "write"
  /\ written' = [written EXCEPT ![run.id] = Append(@, run.version)]
  /\ runs' = Become(run, [run EXCEPT !.pc = "persist"])
  /\ UNCHANGED <<files, index, blobs, now, nextId, inferOk, thrown, vmap, nSync, ret>>

\* insertRecords rejects: the catch block logs it, the map is not written
SyncWriteFail(run) ==
  /\ run.kind = "sync" /\ run.pc = "write"
  /\ runs' = End(run)
  /\ UNCHANGED <<files, index, blobs, now, nextId, inferOk, thrown, hc, ret>>

\* map[meal.id] = version; writeVersionMap(map): the call's own copy of the
\* map replaces the stored one
SyncPersist(run) ==
  /\ run.kind = "sync" /\ run.pc = "persist"
  /\ vmap' = Put(run.map, run.id, run.version)
  /\ runs' = End(run)
  /\ UNCHANGED <<files, index, blobs, now, nextId, inferOk, thrown, written, nSync, ret>>

\* SecureStore.setItemAsync rejects inside writeVersionMap: logged, not rethrown
SyncPersistFail(run) ==
  /\ run.kind = "sync" /\ run.pc = "persist"
  /\ runs' = End(run)
  /\ UNCHANGED <<files, index, blobs, now, nextId, inferOk, thrown, hc, ret>>

\* calls made without awaiting them (the edit flows, processMeal of several
\* meals): they overlap
NextSync ==
  \/ \E id \in Ids, an \in {"obj", "null"} : SyncStart(id, an)
  \/ \E run \in BagToSet(runs) : SyncGetVersion(run)
  \/ \E run \in BagToSet(runs) : SyncInit(run)
  \/ \E run \in BagToSet(runs) : SyncWriteOk(run)
  \/ \E run \in BagToSet(runs) : SyncWriteFail(run)
  \/ \E run \in BagToSet(runs) : SyncPersist(run)
  \/ \E run \in BagToSet(runs) : SyncPersistFail(run)

SpecSync == Init /\ [][NextSync]_vars

\* calls made one after another, on a SecureStore that takes every write
SyncStartAlone(id, an) ==
  /\ runs = EmptyBag
  /\ SyncStart(id, an)

NextSyncSeq ==
  \/ \E id \in Ids, an \in {"obj", "null"} : SyncStartAlone(id, an)
  \/ \E run \in BagToSet(runs) : SyncGetVersion(run)
  \/ \E run \in BagToSet(runs) : SyncInit(run)
  \/ \E run \in BagToSet(runs) : SyncWriteOk(run)
  \/ \E run \in BagToSet(runs) : SyncWriteFail(run)
  \/ \E run \in BagToSet(runs) : SyncPersist(run)

SpecSyncSeq == Init /\ [][NextSyncSeq]_vars

Next ==
  \/ Tick
  \/ \E in \in AddInputs : AddMeal(in[1], in[2])
  \/ \E id \in Ids : DeleteMeal(id)
  \/ \E id \in Ids : RetryMeal(id)
  \/ ResumePending
  \/ \E run \in BagToSet(runs) : ProcExpired(run)
  \/ \E run \in BagToSet(runs) : ProcRetryLoading(run)
  \/ \E run \in BagToSet(runs) : ProcReadImage(run)
  \/ \E run \in BagToSet(runs) : ProcInferFail(run)
  \/ \E run \in BagToSet(runs) : ProcInferDone(run)
  \/ \E run \in BagToSet(runs) : ProcSync(run)
  \/ \E run \in BagToSet(runs) : ProcCatch(run)
  \/ \E run \in BagToSet(runs) : ResumeNext(run)

Spec == Init /\ [][Next]_vars

\* ---- the same program with an inference collaborator that fails on every call ----

InitInferFails ==
  /\ files = [i \in {} |-> NoMeal]
  /\ index = <<>>
  /\ blobs = {}
  /\ now = 0
  /\ nextId = 1
  /\ runs = EmptyBag
  /\ inferOk = FALSE
  /\ thrown = {}
  /\ vmap = [i \in {} |-> 0]
  /\ written = [i \in Ids |-> <<>>]
  /\ nSync = 0
  /\ ret = NoCall

NextInferFails ==
  \/ Tick
  \/ \E in \in AddInputs : AddMeal(in[1], in[2])
  \/ \E id \in Ids : DeleteMeal(id)
  \/ \E id \in Ids : RetryMeal(id)
  \/ ResumePending
  \/ \E run \in BagToSet(runs) : ProcExpired(run)
  \/ \E run \in BagToSet(runs) : ProcRetryLoading(run)
  \/ \E run \in BagToSet(runs) : ProcReadImage(run)
  \/ \E run \in BagToSet(runs) : ProcInferFail(run)
  \/ \E run \in BagToSet(runs) : ProcCatch(run)
  \/ \E run \in BagToSet(runs) : ResumeNext(run)

SpecInferFails == InitInferFails /\ [][NextInferFails]_vars

\* ---- the same program, and the app killed while analyses are in flight ----

NextKill ==
  \/ \E in \in AddInputs : AddMeal(in[1], in[2])
  \/ \E id \in Ids : RetryMeal(id)
  \/ ResumePending
  \/ \E run \in BagToSet(runs) : ProcRetryLoading(run)
  \/ \E run \in BagToSet(runs) : ProcReadImage(run)
  \/ \E run \in BagToSet(runs) : ProcInferFail(run)
  \/ \E run \in BagToSet(runs) : ProcInferDone(run)
  \/ \E run \in BagToSet(runs) : ProcSync(run)
  \/ \E run \in BagToSet(runs) : ProcCatch(run)
  \/ \E run \in BagToSet(runs) : ResumeNext(run)
  \/ KillApp

SpecKill == Init /\ [][NextKill]_vars

\* ---------------------------------------------------------------------------
\* Properties
\* ---------------------------------------------------------------------------

Stored == DOMAIN files

\* C1: after any sequence of store operations run one at a time (create,
\* createPending, update, markError, delete, clearByTimeRange), every id listed
\* in the index has a record file that can be read and parsed.
C1_IndexedHaveFiles == \A i \in 1..Len(index) : Readable(index[i].id)

\* a store holding an indexed record in error state, after some other record was removed
C1_Witness ==
  /\ \E i \in IndexIds(index) : Readable(i) /\ files[i].hasError
  /\ \E b \in blobs : b \notin IndexIds(index)

\* C2: a stored record with isLoading = false and hasError = false has a
\* structured analysis (never analysis = null), also while a retry is in flight.
C2_FlagsFalseImpliesAnalysis ==
  \A i \in Stored : (~files[i].isLoading /\ ~files[i].hasError) => files[i].analysis # "null"

\* C3: no stored record has isLoading and hasError both true.
C3_NeverLoadingAndError == \A i \in Stored : ~(files[i].isLoading /\ files[i].hasError)

\* updateMealAnalysisError has acted on a record that was stored as loading
C3_Witness == \E i \in Stored : files[i].hasError /\ files[i].analysis = "null"

\* C4: processMeal never throws, whatever fails: the inference call, the image
\* read, the store (the record file is gone, so that updateMealAnalysisError
\* fails too).
C4_ProcessNeverThrows == "process" \notin thrown

\* updateMealAnalysisError has failed inside processMeal's catch block
C4_Witness == "markError" \in thrown /\ "process" \notin thrown

\* this run's call of processMeal takes a step
Moves(run) == CopiesIn(run, runs') < CopiesIn(run, runs)

InError(m) == m.hasError /\ ~m.isLoading
Complete(m) == m.analysis # "null" /\ ~m.isLoading /\ ~m.hasError

\* C5: given a record older than 24 hours, processMeal marks the stored record
\* hasError = true, isLoading = false and returns, and the inference call is
\* never made; also when the record comes from retryMeal or resumePending and
\* is already in error state (no transition back to loading first).
C5_ExpiredNeverAnalyzed ==
  [][/\ \A run \in BagToSet(runs') : run.exp => run.pc \in {"expired", "catch", "delay"}
     /\ \A run \in BagToSet(runs) :
          (run.pc = "expired" /\ Moves(run) /\ Readable(run.meal.id))
            => /\ InError(files'[run.meal.id])
               /\ runs' = Over(run)]_vars

\* resumePending's call of processMeal on an expired record already in error
\* state has returned, and the stored record is in error state
C5_Witness ==
  \E run \in BagToSet(runs) :
    /\ run.pc = "delay" /\ run.exp /\ run.meal.hasError
    /\ Readable(run.meal.id) /\ InError(files[run.meal.id])

\* C6: with an inference collaborator that fails on every call, each retryMeal
\* of an existing record ends with the stored record hasError = true,
\* isLoading = false, and retryMeal does not throw.
C6_RetryEndsInError ==
  [][/\ "retry" \notin thrown'
     /\ \A run \in BagToSet(runs) :
          (run.kind = "retry" /\ runs' = End(run) /\ run.meal.id \in DOMAIN files')
            => InError(files'[run.meal.id])]_vars

\* a retry of a stored record, not expired, whose inference call has failed
C6_Witness ==
  \E run \in BagToSet(runs) :
    run.kind = "retry" /\ run.pc = "catch" /\ ~run.exp /\ Readable(run.meal.id)

\* C7: once a stored record is Complete, no pipeline activity turns it into
\* an Error record.
C7_CompleteNeverToError ==
  [][\A i \in Stored \cap DOMAIN files' : Complete(files[i]) => ~files'[i].hasError]_vars

\* C8: on the retry of a non-expired record in error state, the stored record
\* is loading (isLoading = true, hasError = false) before the inference call.
C8_RetryStoresLoading ==
  [][\A run \in BagToSet(runs) :
       (run.pc = "retry" /\ Moves(run) /\ Readable(run.meal.id))
         => (files'[run.meal.id].isLoading /\ ~files'[run.meal.id].hasError)]_vars

Created == 1..(nextId - 1)

\* C9: after cap + k creates (k > 0) with distinct ids and no pending record in
\* the store, the index holds exactly the cap most recently created ids, the
\* record files of the k first-created ids are gone, and the image blob of
\* every created id is still there.
C9_RetentionCap ==
  (Pending = {} /\ nextId - 1 > Cap) =>
    /\ Len(index) = Cap
    /\ \A i \in 1..Cap : index[i].id = nextId - i
    /\ \A j \in 1..(nextId - 1 - Cap) : ~Readable(j)
    /\ Created \subseteq blobs

\* cap + 2 creates have been made
C9_Witness == Pending = {} /\ nextId - 1 = Cap + 2 /\ Created \cap Stored = (3..(Cap + 2))

\* C10: the index never holds more than cap entries.
C10_IndexWithinCap == Len(index) <= Cap

\* C11: for each record id, the versions that writeMealToHealthConnect has
\* written to Health Connect form a strictly increasing sequence, whatever the
\* interleaving of the calls and also when a write of the version map fails.
C11_VersionsIncrease ==
  \A id \in Ids : \A i \in 1..(Len(written[id]) - 1) : written[id][i] < written[id][i + 1]

Stored_Version(id) == IF id \in DOMAIN vmap THEN vmap[id] ELSE 0

Flags == {"isLoading", "hasError"}

GoodPos == {i \in 1..Len(readIndex) : Readable(readIndex[i].id)}

\* C14: getMealHistory does not throw; when record files of indexed ids are
\* missing or do not parse, it returns the records of the other indexed ids,
\* in the order of the index, and leaves the index and the record files as
\* they were.
C14_ListSkipsBadFiles ==
  [][(ret'.op = "list" /\ ret' # ret) =>
       /\ UNCHANGED <<files, index, blobs>>
       /\ ~ret'.threw
       /\ Len(ret'.val) = Cardinality(GoodPos)
       /\ \A i \in GoodPos :
            ret'.val[Cardinality({j \in GoodPos : j <= i})] = files[readIndex[i].id]]_vars

\* getMealHistory has returned the second of two indexed records, the file of
\* the first one being missing or unparseable
C14_Witness ==
  /\ ret.op = "list" /\ Len(readIndex) = 2
  /\ ~Readable(readIndex[1].id) /\ Readable(readIndex[2].id)
  /\ ret.val = <<files[readIndex[2].id]>>

\* C15: when index.json cannot be read or parsed, getMealHistory returns an
\* empty list and getMealCount returns 0, without throwing, and no call on
\* the store throws for it (a call that throws is an update of a record whose
\* own file cannot be read).
C15_UnreadableIndexIsEmpty ==
  [][(index = Garbled /\ ret' # ret) =>
       /\ (ret'.op = "list") => (ret'.val = <<>> /\ ~ret'.threw)
       /\ (ret'.op = "count") => (ret'.val = <<0>> /\ ~ret'.threw)
       /\ ret'.threw => (ret'.op \in {"update", "markError"} /\ ~Readable(ret'.id))]_vars

\* getMealCount has returned 0 with an unparseable index and a record on disk
C15_Witness ==
  /\ ret.op = "count" /\ ret.val = <<0>> /\ index = Garbled
  /\ \E i \in Ids : Readable(i)

\* C19: a deleteMeal(id) that follows a deleteMeal(id) does not throw and
\* leaves the index and the record files as the first one left them; so does
\* the deleteMeal of an id that has neither a record file nor an index entry.
C19_DeleteIdempotent ==
  [][\A id \in Ids :
       (ret'.op = "delete" /\ ret'.id = id /\ ret' # ret) =>
         /\ ~ret'.threw
         /\ (ret'.again \/ (id \notin DOMAIN files /\ id \notin IndexIds(readIndex)))
              => UNCHANGED <<files, index, blobs>>]_vars

\* deleteMeal(id) has been called twice in a row on a store that holds records
C19_Witness ==
  /\ ret.op = "delete" /\ ret.again
  /\ readIndex # <<>> /\ \E i \in Ids : Readable(i)
\* C17: when deleteMeal(id) has run to its end while processMeal of that record
\* waits for the inference call, then at the answer of the call (a result or a
\* failure) processMeal does not throw, the record file is not written again,
\* the id does not come back into the index, and writeMealToHealthConnect is
\* not reached for the record.
C17_DeletedStaysDeleted ==
  [][\A run \in BagToSet(runs) :
       (/\ run.pc \in {"infer", "catch"} /\ Moves(run)
        /\ run.meal.id \notin DOMAIN files /\ run.meal.id \notin IndexIds(readIndex))
         => /\ run.meal.id \notin DOMAIN files'
            /\ run.meal.id \notin IndexIds(index')
            /\ "process" \notin thrown'
            /\ runs' \in {Become(run, [run EXCEPT !.pc = "catch"]), Over(run)}]_vars

\* processMeal of a record deleted under it is over: marking the error has
\* failed and was swallowed, and the record is neither on disk nor in the index
C17_Witness ==
  /\ "markError" \in thrown /\ runs = EmptyBag
  /\ \E id \in Created : id \notin DOMAIN files /\ id \notin IndexIds(index)
  /\ \A id \in Created : id \in DOMAIN files => Complete(files[id])
\* C16: when the app is killed at a suspension point of deleteMeal(id), no
\* entry of the index on disk is left without its record file; the record
\* files are all still there, and the index is the one before the call or
\* that one without the entry of id (the file of id is then left without an
\* entry).
C16_KillLeavesNoDanglingEntry ==
  [][(ret'.op = "kill" /\ ret' # ret) =>
       /\ \A i \in 1..Len(readIndex') : Readable(readIndex[i].id)'
       /\ files' = files
       /\ readIndex' \in {readIndex, SelectIdx(readIndex, ret'.id)}]_vars

\* the app was killed after the index was written: the record file of the id
\* is on disk and the index does not list it
C16_Witness ==
  /\ ret.op = "kill" /\ Readable(ret.id) /\ ret.id \notin IndexIds(readIndex)
  /\ readIndex # <<>>

\* C18: when deleteMeal(id) has returned without an error, the id is not in
\* the index and getMealById(id) returns null, whatever the state of the store
\* at the call, a record file without an index entry included.
C18_DeleteRemoves ==
  (ret.op = "delete" /\ ~ret.threw) =>
    (ret.id \notin IndexIds(readIndex) /\ ~Readable(ret.id))
\* the windows of the time ranges, in hours: 1 h, 24 h, 30 d, 365 d
WindowHours(range) ==
  CASE range = "hour" -> 1
    [] range = "day" -> 24
    [] range = "month" -> 720
    [] range = "year" -> 8760

\* the positions of the index that clearHistoryByTimeRange(range) is to remove
GonePos(range) ==
  IF range = "all" THEN 1..Len(readIndex)
  ELSE {i \in 1..Len(readIndex) : readIndex[i].timestamp >= now - WindowHours(range)}

StayPos(range) == (1..Len(readIndex)) \ GonePos(range)

\* C20: clearHistoryByTimeRange(range), for hour, day, month and year,
\* removes from the index the entries dated at or after now minus the window
\* and deletes their record files, and nothing else; the entries that stay
\* keep their order; with 'all' no record is left.
C20_ClearByTimeRange ==
  [][(ret'.op = "clear" /\ ret' # ret) =>
       /\ Len(index') = Cardinality(StayPos(ret'.range))
       /\ \A i \in StayPos(ret'.range) :
            index'[Cardinality({j \in StayPos(ret'.range) : j <= i})] = readIndex[i]
       /\ DOMAIN files' = DOMAIN files \ {readIndex[i].id : i \in GonePos(ret'.range)}
       /\ \A k \in DOMAIN files' : files'[k] = files[k]
       /\ (ret'.range = "all") => (index' = <<>> /\ DOMAIN files' = {})]_vars

\* clearHistoryByTimeRange('day') has removed a meal and kept an older one
C20_Witness ==
  /\ ret.op = "clear" /\ ret.range = "day"
  /\ Len(index) = 1 /\ index[1].timestamp < now - 24 /\ Readable(index[1].id)
  /\ \E b \in blobs : b \notin IndexIds(index) /\ ~Readable(b)
\* C21: no record without an image and without a comment is stored by
\* saveMealAnalysis or savePendingMeal.
C21_NoEmptyRecord ==
  \A i \in Stored : files[i].imageUri # "" \/ files[i].comment # ""

\* C23: importData of a valid export file with a meal that has no image data
\* ends without an error, and that meal is then in getMealHistory with
\* imageUri ''.
C23_ImportTextOnly ==
  (ret.op = "import") =>
    /\ ~ret.threw
    /\ \A k \in 1..Len(ret.val) :
         ~ret.val[k].image =>
           \E j \in 1..Len(History(readIndex)) :
             /\ History(readIndex)[j].id = ret.val[k].id
             /\ History(readIndex)[j].imageUri = ""
\* the positions of getMealHistory's result with isLoading or hasError
FlaggedPos ==
  {i \in 1..Len(History(readIndex)) :
     History(readIndex)[i].isLoading \/ History(readIndex)[i].hasError}

Pcs == {"expired", "retry", "read", "infer", "sync", "catch", "delay"}

\* C22: resumePending does not throw; one invocation goes through the records
\* of its listing that have isLoading or hasError, each one once and in
\* order, a processMeal being started only when the one before it is over,
\* and it goes on to the next record when the processing of one has failed.
C22_ResumeSequential ==
  [][/\ \A r \in BagToSet(runs') :
          (r.kind = "resume" /\ BagCardinality(runs') > BagCardinality(runs)
           /\ CopiesIn(r, runs') > CopiesIn(r, runs))
            => /\ Len(<<r.meal>> \o r.queue) = Cardinality(FlaggedPos)
               /\ \A i \in FlaggedPos :
                    (<<r.meal>> \o r.queue)[Cardinality({j \in FlaggedPos : j <= i})]
                      = History(readIndex)[i]
     /\ \A run \in BagToSet(runs) :
          (run.kind = "resume" /\ Moves(run)) =>
            /\ "process" \notin thrown'
            /\ IF run.pc = "delay"
               THEN IF run.queue = <<>> THEN runs' = End(run)
                    ELSE \E r \in BagToSet(runs') :
                           /\ r.kind = "resume" /\ r.pc # "delay"
                           /\ r.meal = Head(run.queue) /\ r.queue = Tail(run.queue)
                           /\ runs' = Become(run, r)
               ELSE \E pc \in Pcs : runs' = Become(run, [run EXCEPT !.pc = pc])]_vars

\* one invocation of resumePending has gone through two records in error
\* state: the processing of both failed and both are stored in error state
C22_Witness ==
  /\ \E run \in BagToSet(runs) : run.kind = "resume" /\ run.pc = "delay" /\ run.queue = <<>>
  /\ \A i \in Ids : Readable(i) /\ InError(files[i]) /\ ~Expired(files[i])
\* the positions of the index held by other ids than id
OtherPos(id) == {i \in 1..Len(readIndex) : readIndex[i].id # id}

Selected == {ToRetry(History(readIndex))[i].id : i \in 1..Len(ToRetry(History(readIndex)))}

\* C27: at any time at most one inference call is in flight for a record id,
\* whichever of the add flow, a manual retry and the calls of resumePending
\* started the runs of processMeal.
C27_OneInferencePerRecord ==
  \A r1 \in BagToSet(runs) : \A r2 \in BagToSet(runs) :
    (r1.pc = "infer" /\ r2.pc = "infer" /\ r1.meal.id = r2.meal.id)
      => (r1 = r2 /\ CopiesIn(r1, runs) = 1)

\* C26: when no call on the store is in flight, every record file that was
\* written has its entry in the index, however the calls of saveMealAnalysis,
\* savePendingMeal and updateMealAnalysis were interleaved at their awaits.
C26_NoLostIndexEntry ==
  Quiet => \A id \in DOMAIN files : id \in IndexIds(readIndex)

\* C30: when no call on the store is in flight, the timestamp of every index
\* entry is the timestamp in the record file of its id.
C30_IndexTimestampIsFileTimestamp ==
  Quiet => \A i \in 1..Len(readIndex) :
             readIndex[i].id \in DOMAIN files =>
               files[readIndex[i].id].timestamp = readIndex[i].timestamp

\* C25: once a deleteMeal(id) has returned and no call on the store is in
\* flight, id is not in the index and has no record file, whatever
\* updateMealAnalysis(id) overlapped with it.
C25_DeleteNotUndone ==
  (Quiet /\ ret.op = "delete") =>
    (ret.id \notin IndexIds(readIndex) /\ ret.id \notin DOMAIN files)

\* C29: after the app was killed inside saveMealAnalysis or inside
\* clearHistoryByTimeRange / clearHistory, every index entry has its record file.
C29_KillLeavesNoDanglingEntry ==
  ret.op = "kill" => \A id \in IndexIds(readIndex) : id \in DOMAIN files

\* C28: once the app has been killed and nothing runs, every listed record
\* that has no analysis is selected by the filter of resumePending.
C28_KilledRecordSelected ==
  (ret.op = "kill" /\ runs = EmptyBag) =>
    \A id \in IndexIds(readIndex) :
      (Readable(id) /\ files[id].analysis = "null") => id \in Selected
====
